---- MODULE Spec2Model ----
(***************************************************************************)
(* TransformCSV (tcsv.py): a streaming CSV pipeline.  The schema registry  *)
(* (names, idx), the chains of row closures (mutation_fns,                 *)
(* constraint_fns), the projection (select_fn), the row counter and the    *)
(* reader's cursor are the state; rename / add / add_column / mutate /     *)
(* constraint / select / __next__ / write are the actions.                 *)
(*                                                                         *)
(* Python lists are objects: self.names, the `columns` captured by a       *)
(* closure and the list handed to select() may be one and the same list.   *)
(* The model keeps the name lists in a heap and lets closures hold a       *)
(* reference where the code captures the object itself.                    *)
(***************************************************************************)
EXTENDS Integers, Sequences, FiniteSets, TLC

\* ---------------------------------------------------------------- bounds
MaxOps  == 3      \* registration calls per run
MaxRows == 2      \* data rows the source holds
MaxSkip == 1      \* largest skiprows argument
MaxVal  == 1      \* field values are 0..MaxVal

\* ---------------------------------------------------------------- inputs
ColumnNames == {"a", "b", "k"}
Headers     == {<<"a", "b">>}
Values      == 0..MaxVal
SourceRows  == [1..2 -> Values]

\* the `col` / `columns` argument: None, a str, a list, or something else
ColNone   == [t |-> "none",  v |-> <<>>]
ColStr(c) == [t |-> "str",   v |-> <<c>>]
ColList(s) == [t |-> "list", v |-> s]
ColOther  == [t |-> "other", v |-> <<>>]

\* ---------------------------------------------------------------- helpers
Range(s) == {s[i] : i \in 1..Len(s)}

Max(S) == CHOOSE m \in S : \A n \in S : n <= m

\* dict(zip(names, range(len(names)))): a repeated name keeps its last index
ZipIdx(ns) ==
  [n \in Range(ns) |-> Max({i - 1 : i \in {j \in 1..Len(ns) : ns[j] = n}})]

\* d[name] = i on a dict
DictSet(d, n, i) ==
  [m \in (DOMAIN d) \cup {n} |-> IF m = n THEN i ELSE d[m]]

\* ---------------------------------------------------------------- failures
NoErr == [type |-> "none", column |-> "", value |-> 0, fn_name |-> "", rown |-> 0]
KeyErr   == [NoErr EXCEPT !.type = "KeyError"]
IndexErr == [NoErr EXCEPT !.type = "IndexError"]
UserErr  == [NoErr EXCEPT !.type = "UserError"]

\* ConstraintError(column, value, fn_name, rownumber)
ConstraintError(column, value, fn_name, rown) ==
  [type |-> "ConstraintError", column |-> column, value |-> value,
   fn_name |-> fn_name, rown |-> rown]

\* TransformError(row, err)
TransformError(row, err) == [row |-> row, err |-> err]

NoTransformError == TransformError(0, NoErr)

\* ---------------------------------------------------------------- user functions
\* mutate functions: "inc" never raises, "strict" raises on 0
MutFns == {"inc", "strict"}
CallMut(fn, v) ==
  IF fn = "inc" THEN [ok |-> TRUE, val |-> (v + 1) % (MaxVal + 1)]
  ELSE IF v = 0 THEN [ok |-> FALSE, val |-> v]
  ELSE [ok |-> TRUE, val |-> v]

\* add_column function: fn(*vals), the sum of its arguments
RECURSIVE SumSeq(_)
SumSeq(s) == IF s = <<>> THEN 0 ELSE Head(s) + SumSeq(Tail(s))
CallCol(fn, vals) == SumSeq(vals) % (MaxVal + 1)

\* constraint predicates
Preds == {"nonzero", "small"}
CallPred(fn, v) == IF fn = "nonzero" THEN v # 0 ELSE v < MaxVal

VARIABLES
  rownumber,       \* self.rownumber
  heap,            \* the name-list objects created so far
  names,           \* self.names: a reference into heap
  idx,             \* self.idx
  mutation_fns,    \* self.mutation_fns
  constraint_fns,  \* self.constraint_fns
  select_fn,       \* self.select_fn
  pos,             \* lines of the source the reader has consumed
  eof,             \* the reader has raised StopIteration
  skiprows,        \* the skiprows argument the pipeline was built with
  nops,            \* registration calls made
  ret,             \* outcome of the last call
  trace,           \* closure calls the last call made on the row it failed or ended on
  sink,            \* what the last call handed to csv.writer
  failed           \* some pull has failed on a constraint

vars == <<rownumber, heap, names, idx, mutation_fns, constraint_fns, select_fn,
          pos, eof, skiprows, nops, ret, trace, sink, failed>>

\* ---------------------------------------------------------------- closures
\* the pipeline object as the closures see it (they hold `self`)
Self == [rownumber |-> rownumber, heap |-> heap, names |-> names, idx |-> idx,
         mutation_fns |-> mutation_fns, constraint_fns |-> constraint_fns,
         select_fn |-> select_fn]

\* the `columns` a closure iterates: the list object it captured (ref) when
\* that object is one of the schema's name lists, its own list otherwise
Columns(p, cl) == IF cl.ref = 0 THEN cl.cols ELSE p.heap[cl.ref]

Ok(row)  == [ok |-> TRUE,  row |-> row,  err |-> NoErr]
Raise(e) == [ok |-> FALSE, row |-> <<>>, err |-> e]

\* row[self.idx[c]]
Item(p, c, row) ==
  IF c \notin DOMAIN p.idx THEN [ok |-> FALSE, val |-> 0, err |-> KeyErr]
  ELSE IF p.idx[c] >= Len(row) THEN [ok |-> FALSE, val |-> 0, err |-> IndexErr]
  ELSE [ok |-> TRUE, val |-> row[p.idx[c] + 1], err |-> NoErr]

\* add.f
f(row, val) == Ok(Append(row, val))

\* the first index at which a loop stops
Min(S) == CHOOSE m \in S : \A n \in S : m <= n

\* [row[self.idx[c]] for c in columns]: the first lookup that fails raises
Gather(p, columns, row) ==
  LET bad == {i \in 1..Len(columns) : ~Item(p, columns[i], row).ok} IN
  IF bad = {} THEN Ok([i \in 1..Len(columns) |-> Item(p, columns[i], row).val])
  ELSE Raise(Item(p, columns[Min(bad)], row).err)

\* add_column.add_column_fn, given the gathered vals
Appended(vals, fn, row) ==
  IF ~vals.ok THEN vals ELSE Ok(Append(row, CallCol(fn, vals.row)))

add_column_fn(p, fn, columns, row) == Appended(Gather(p, columns, row), fn, row)

\* row[self.idx[c]] = fn(row[self.idx[c]])
MutateItem(p, fn, c, row) ==
  LET it == Item(p, c, row) IN
  IF ~it.ok THEN Raise(it.err)
  ELSE LET r == CallMut(fn, it.val) IN
       IF ~r.ok THEN Raise(UserErr)
       ELSE Ok([row EXCEPT ![p.idx[c] + 1] = r.val])

\* mutate.mutate_fn: the loop over columns, each step on the row the previous
\* step left
RECURSIVE mutate_fn(_, _, _, _)
MutateRest(one, p, fn, columns) ==
  IF ~one.ok THEN one ELSE mutate_fn(p, fn, Tail(columns), one.row)

mutate_fn(p, fn, columns, row) ==
  IF columns = <<>> THEN Ok(row)
  ELSE MutateRest(MutateItem(p, fn, Head(columns), row), p, fn, columns)

\* val = row[self.idx[c]]; if not fn(val): raise ConstraintError(...)
CheckItem(p, fn, c, row) ==
  LET it == Item(p, c, row) IN
  IF ~it.ok THEN Raise(it.err)
  ELSE IF ~CallPred(fn, it.val)
       THEN Raise(ConstraintError(c, it.val, fn, p.rownumber))
       ELSE Ok(row)

\* a loop that checks every column and raises for the last one that failed
constraint_fn_last(p, fn, columns, row) ==
  LET bad == {i \in 1..Len(columns) : ~CheckItem(p, fn, columns[i], row).ok} IN
  IF bad = {} THEN Ok(row) ELSE CheckItem(p, fn, columns[Max(bad)], row)

\* constraint.constraint_fn: the first column that fails raises
constraint_fn(p, fn, columns, row) ==
  LET bad == {i \in 1..Len(columns) : ~CheckItem(p, fn, columns[i], row).ok} IN
  IF bad = {} THEN Ok(row) ELSE CheckItem(p, fn, columns[Min(bad)], row)

\* select.select_fn, or the default lambda row: row
CallSelect(p, row) ==
  IF ~p.select_fn.on THEN Ok(row)
  ELSE Gather(p, p.heap[p.select_fn.ref], row)

\* one entry of mutation_fns called on a row
CallMutation(p, cl, row) ==
  IF cl.kind = "add" THEN f(row, cl.val)
  ELSE IF cl.kind = "add_column" THEN add_column_fn(p, cl.fn, Columns(p, cl), row)
  ELSE mutate_fn(p, cl.fn, Columns(p, cl), row)

\* one closure call: the row it was given and what it returned or raised
Event(stage, n, arg, r) ==
  [stage |-> stage, n |-> n, arg |-> arg, out |-> r.row, ok |-> r.ok, err |-> r.err]

\* how a loop over a chain ended, with the calls made so far
Done(row, tr)   == [ok |-> TRUE,  row |-> row,  err |-> NoErr, trace |-> tr]
Failed(err, tr) == [ok |-> FALSE, row |-> <<>>, err |-> err,   trace |-> tr]

\* a chain whose closures are each handed the source row, not the previous
\* closure's result
RECURSIVE RunMutations_unthreaded(_, _, _, _)
Called_unthreaded(r, p, i, row, tr) ==
  IF r.ok
  THEN RunMutations_unthreaded(p, i + 1, row, Append(tr, Event("mutation", i, row, r)))
  ELSE Failed(r.err, Append(tr, Event("mutation", i, row, r)))

RunMutations_unthreaded(p, i, row, tr) ==
  IF i > Len(p.mutation_fns) THEN Done(IF tr = <<>> THEN row ELSE tr[Len(tr)].out, tr)
  ELSE Called_unthreaded(CallMutation(p, p.mutation_fns[i], row), p, i, row, tr)

\* for fn in self.mutation_fns: mutated = fn(row)
\* every closure changes the list it is given in place and returns it, so
\* `row` holds the previous closure's result when the next one is called
RECURSIVE RunMutations(_, _, _, _)
Called(r, p, i, row, tr) ==
  IF r.ok THEN RunMutations(p, i + 1, r.row, Append(tr, Event("mutation", i, row, r)))
  ELSE Failed(r.err, Append(tr, Event("mutation", i, row, r)))

RunMutations(p, i, row, tr) ==
  IF i > Len(p.mutation_fns) THEN Done(row, tr)
  ELSE Called(CallMutation(p, p.mutation_fns[i], row), p, i, row, tr)

\* cfn(mutated_cp) for the i-th entry of self.constraint_fns
Checked(p, i, row) ==
  constraint_fn(p, p.constraint_fns[i].fn, Columns(p, p.constraint_fns[i]), row)

\* for cfn in self.constraint_fns: cfn(mutated_cp)  -- the first entry that
\* raises ends the loop
RunConstraints(p, row, tr) ==
  LET bad  == {i \in 1..Len(p.constraint_fns) : ~Checked(p, i, row).ok}
      last == IF bad = {} THEN Len(p.constraint_fns) ELSE Min(bad)
      t    == tr \o [i \in 1..last |-> Event("constraint", i, row, Checked(p, i, row))]
  IN IF bad = {} THEN Done(row, t) ELSE Failed(Checked(p, last, row).err, t)

\* return self.select_fn(mutated)
Selected(s, c, m) ==
  [ok |-> s.ok, row |-> s.row, err |-> s.err,
   trace |-> Append(c.trace, Event("select", 0, m.row, s))]

AfterConstraints(c, m, p) ==
  IF ~c.ok THEN c ELSE Selected(CallSelect(p, m.row), c, m)

\* mutated_cp = mutated[:] and the constraint loop
AfterMutations(m, p) ==
  IF ~m.ok THEN m ELSE AfterConstraints(RunConstraints(p, m.row, m.trace), m, p)

\* the try block of __next__ on the raw row `row`, with p.rownumber already
\* advanced
Transform(p, row) == AfterMutations(RunMutations(p, 1, row, <<>>), p)

\* ---------------------------------------------------------------- the calls' outcomes
Ret(op, kind) == [op |-> op, kind |-> kind, row |-> <<>>, exc |-> NoTransformError,
                  raw |-> <<>>, exhausted |-> FALSE]

NoSink == [header |-> <<>>, rows |-> <<>>, read |-> <<>>, written |-> FALSE]

\* data rows the reader has handed out: the lines after the skipped ones and
\* the header
Consumed == pos - skiprows - 1

\* the sequences of at most n rows
BoundedSeqs(S, n) == UNION {[1..m -> S] : m \in 0..n}

\* ---------------------------------------------------------------- arguments
RenameMaps     == {<<"a", "k">>, <<"b", "a">>, <<"k", "b">>}
AddArgs        == {"k"} \X Values
AddColumnArgs  == {"k"} \X {"total"} \X {ColStr("k"), ColList(<<"a", "b">>), ColNone}
MutateArgs     == ({"inc"} \X {ColNone, ColStr("a"), ColOther})
                    \cup ({"strict"} \X {ColStr("b"), ColStr("k")})
ConstraintArgs == ({"nonzero"} \X {ColNone, ColList(<<"b", "a">>)})
                    \cup ({"small"} \X {ColStr("b"), ColStr("k"), ColOther})
SelectArgs     == {<<"a">>, <<"b", "a">>, <<"k", "a">>}

\* ---------------------------------------------------------------- construction
\* a reader that counts the header row as well
_create_reader_counting_header(s, header) ==
  /\ rownumber = 1 + s + 1
  /\ pos = s + 1
  /\ heap = <<header>>
  /\ names = 1
  /\ idx = ZipIdx(header)

\* __init__ and _create_reader: skiprows rows are skipped, each advancing the
\* counter; the header row is read without advancing it
_create_reader(s, header) ==
  /\ rownumber = 1 + s
  /\ pos = s + 1
  /\ heap = <<header>>
  /\ names = 1
  /\ idx = ZipIdx(header)

Init ==
  \E s \in 0..MaxSkip, header \in Headers :
    /\ _create_reader(s, header)
    /\ skiprows = s
    /\ mutation_fns = <<>>
    /\ constraint_fns = <<>>
    /\ select_fn = [on |-> FALSE, ref |-> 0, cols |-> <<>>, res |-> [n \in {} |-> 0]]
    /\ eof = FALSE
    /\ nops = 0
    /\ ret = Ret("__init__", "ok")
    /\ trace = <<>>
    /\ sink = NoSink
    /\ failed = FALSE

\* ---------------------------------------------------------------- registration
\* what every registration call does besides its own effect: it is counted
\* and its outcome recorded
Registering(op, kind) ==
  /\ nops < MaxOps
  /\ nops' = nops + 1
  /\ ret' = Ret(op, kind)
  /\ trace' = <<>>
  /\ sink' = NoSink
  /\ UNCHANGED <<rownumber, pos, eof, skiprows, failed>>

\* for c in columns: self.idx[c]  -- the validation loop
Valid(columns) == \A i \in 1..Len(columns) : columns[i] \in DOMAIN idx

\* new_names of rename
Renamed(ns, name_map) ==
  [i \in 1..Len(ns) |-> IF ns[i] = name_map[1] THEN name_map[2] ELSE ns[i]]

rename ==
  \E name_map \in RenameMaps :
    LET new_names == Renamed(heap[names], name_map) IN
    /\ Registering("rename", "ok")
    /\ heap' = Append(heap, new_names)
    /\ names' = Len(heap) + 1
    /\ idx' = ZipIdx(new_names)
    /\ UNCHANGED <<mutation_fns, constraint_fns, select_fn>>

add ==
  \E a \in AddArgs :
    LET name == a[1]
        val  == a[2]
    IN
    /\ Registering("add", "ok")
    /\ mutation_fns' = Append(mutation_fns,
          [kind |-> "add", val |-> val, fn |-> "", ref |-> 0, cols |-> <<>>])
    /\ heap' = [heap EXCEPT ![names] = Append(@, name)]
    /\ idx' = DictSet(idx, name, Len(heap[names]))
    /\ UNCHANGED <<names, constraint_fns, select_fn>>

add_column ==
  \E a \in AddColumnArgs :
    LET name == a[1]
        fn   == a[2]
        col  == a[3]
    IN
    IF col.t \notin {"str", "list"}
    THEN /\ Registering("add_column", "TypeError")
         /\ UNCHANGED <<heap, names, idx, mutation_fns, constraint_fns, select_fn>>
    ELSE IF ~Valid(col.v)
    THEN /\ Registering("add_column", "KeyError")
         /\ UNCHANGED <<heap, names, idx, mutation_fns, constraint_fns, select_fn>>
    ELSE /\ Registering("add_column", "ok")
         /\ mutation_fns' = Append(mutation_fns,
               [kind |-> "add_column", val |-> 0, fn |-> fn, ref |-> 0, cols |-> col.v])
         /\ heap' = [heap EXCEPT ![names] = Append(@, name)]
         /\ idx' = DictSet(idx, name, Len(heap[names]))
         /\ UNCHANGED <<names, constraint_fns, select_fn>>

\* columns = self.names / [col] / col: with None the closure captures the
\* schema's own list object; cols keeps the names it held at that moment
Captured(col) ==
  IF col.t = "none" THEN [ref |-> names, cols |-> heap[names]]
  ELSE [ref |-> 0, cols |-> col.v]

mutate ==
  \E a \in MutateArgs :
    LET fn  == a[1]
        col == a[2]
        cap == Captured(col)
    IN
    IF col.t \notin {"none", "str", "list"}
    THEN /\ Registering("mutate", "TypeError")
         /\ UNCHANGED <<heap, names, idx, mutation_fns, constraint_fns, select_fn>>
    ELSE IF ~Valid(cap.cols)
    THEN /\ Registering("mutate", "KeyError")
         /\ UNCHANGED <<heap, names, idx, mutation_fns, constraint_fns, select_fn>>
    ELSE /\ Registering("mutate", "ok")
         /\ mutation_fns' = Append(mutation_fns,
               [kind |-> "mutate", val |-> 0, fn |-> fn, ref |-> cap.ref, cols |-> cap.cols])
         /\ UNCHANGED <<heap, names, idx, constraint_fns, select_fn>>

constraint ==
  \E a \in ConstraintArgs :
    LET fn  == a[1]
        col == a[2]
        cap == Captured(col)
    IN
    IF col.t \notin {"none", "str", "list"}
    THEN /\ Registering("constraint", "TypeError")
         /\ UNCHANGED <<heap, names, idx, mutation_fns, constraint_fns, select_fn>>
    ELSE IF ~Valid(cap.cols)
    THEN /\ Registering("constraint", "KeyError")
         /\ UNCHANGED <<heap, names, idx, mutation_fns, constraint_fns, select_fn>>
    ELSE /\ Registering("constraint", "ok")
         /\ constraint_fns' = Append(constraint_fns,
               [fn |-> fn, ref |-> cap.ref, cols |-> cap.cols])
         /\ UNCHANGED <<heap, names, idx, mutation_fns, select_fn>>

\* the list passed in becomes self.names and is the list select_fn iterates;
\* self.idx is left as it was.  cols and res keep what the list held and how
\* its names resolved when select was called
select ==
  \E columns \in SelectArgs :
    IF ~Valid(columns)
    THEN /\ Registering("select", "KeyError")
         /\ UNCHANGED <<heap, names, idx, mutation_fns, constraint_fns, select_fn>>
    ELSE /\ Registering("select", "ok")
         /\ heap' = Append(heap, columns)
         /\ names' = Len(heap) + 1
         /\ select_fn' = [on |-> TRUE, ref |-> Len(heap) + 1, cols |-> columns,
                           res |-> [c \in Range(columns) |-> idx[c]]]
         /\ UNCHANGED <<idx, mutation_fns, constraint_fns>>

\* ---------------------------------------------------------------- pulling
\* next(self.reader) moved inside the try block: the end of the source is
\* wrapped like any other exception
StopIteration_wrapped(op) ==
  /\ eof' = TRUE
  /\ ret' = [Ret(op, "TransformError") EXCEPT
                !.exc = TransformError(rownumber, UserErr), !.exhausted = eof]
  /\ trace' = <<>>
  /\ UNCHANGED <<rownumber, pos, failed>>

\* row = next(self.reader) raised StopIteration: nothing else runs
StopIteration(op) ==
  /\ eof' = TRUE
  /\ ret' = [Ret(op, "StopIteration") EXCEPT !.exhausted = eof]
  /\ trace' = <<>>
  /\ UNCHANGED <<rownumber, pos, failed>>

\* what the caller of __next__ gets for the source row raw, r being the try
\* block's result and n the counter the except clause reads
Outcome(op, r, n, raw) ==
  IF r.ok THEN [Ret(op, "row") EXCEPT !.row = r.row, !.raw = raw]
  ELSE [Ret(op, "TransformError") EXCEPT !.exc = TransformError(n, r.err), !.raw = raw]

\* the counter left alone when the transformation of the row fails
Returned_uncounted_failure(r, n, raw) ==
  /\ pos' = pos + 1
  /\ rownumber' = IF r.ok THEN rownumber + 1 ELSE rownumber
  /\ trace' = r.trace
  /\ ret' = Outcome("__next__", r, IF r.ok THEN n ELSE n - 1, raw)
  /\ failed' = (failed \/ (~r.ok /\ r.err.type = "ConstraintError"))
  /\ UNCHANGED eof

\* the reader left on the row whose transformation failed
Returned_retry(r, n, raw) ==
  /\ pos' = IF r.ok THEN pos + 1 ELSE pos
  /\ rownumber' = rownumber + 1
  /\ trace' = r.trace
  /\ ret' = Outcome("__next__", r, n, raw)
  /\ failed' = (failed \/ (~r.ok /\ r.err.type = "ConstraintError"))
  /\ UNCHANGED eof

Returned(r, n, raw) ==
  /\ pos' = pos + 1
  /\ rownumber' = rownumber + 1
  /\ trace' = r.trace
  /\ ret' = Outcome("__next__", r, n, raw)
  /\ failed' = (failed \/ (~r.ok /\ r.err.type = "ConstraintError"))
  /\ UNCHANGED eof

\* the counter advanced only after the try block
Pulled_late_count(row) ==
  Returned(Transform([Self EXCEPT !.rownumber = rownumber + 1], row), rownumber, row)

\* the reader handed out `row`: the counter advances, then the try block runs
Pulled(row) ==
  Returned(Transform([Self EXCEPT !.rownumber = rownumber + 1], row), rownumber + 1, row)

__next__ ==
  /\ \/ StopIteration("__next__")
     \/ /\ ~eof
        /\ Consumed < MaxRows
        /\ \E row \in SourceRows : Pulled(row)
  /\ sink' = NoSink
  /\ UNCHANGED <<heap, names, idx, mutation_fns, constraint_fns, select_fn,
                 skiprows, nops>>

\* how the loop of write ended: at StopIteration, or at the row that raised
Drained(lines, n) ==
  [ok |-> TRUE, lines |-> lines, rownumber |-> n, exc |-> NoTransformError,
   trace |-> <<>>, raw |-> <<>>]

Aborted(lines, n, r, raw) ==
  [ok |-> FALSE, lines |-> lines, rownumber |-> n, exc |-> TransformError(n, r.err),
   trace |-> r.trace, raw |-> raw]

\* a loop that swallows a failing row and goes on, reporting it at the end
RECURSIVE Drain_on(_, _, _, _)
Written_on(r, q, rest, lines, first) ==
  IF r.ok THEN Drain_on(q, Tail(rest), Append(lines, r.row), first)
  ELSE Drain_on(q, Tail(rest), lines,
                IF ~first.ok THEN first ELSE Aborted(lines, q.rownumber, r, Head(rest)))

Drain_on(p, rest, lines, first) ==
  IF rest = <<>>
  THEN IF first.ok THEN Drained(lines, p.rownumber)
       ELSE [first EXCEPT !.lines = lines, !.rownumber = p.rownumber]
  ELSE Written_on(Transform([p EXCEPT !.rownumber = @ + 1], Head(rest)),
                  [p EXCEPT !.rownumber = @ + 1], rest, lines, first)

Drain_skipping(p, rest, lines) == Drain_on(p, rest, lines, Drained(<<>>, 0))

RECURSIVE Drain(_, _, _)
\* a loop that puts each new line in front of the ones written so far
Written_unordered(r, q, rest, lines) ==
  IF r.ok THEN Drain(q, Tail(rest), <<r.row>> \o lines)
  ELSE Aborted(lines, q.rownumber, r, Head(rest))

\* writer.writerow(self.__next__()) raised, or wrote the row and the loop goes on
Written(r, q, rest, lines) ==
  IF r.ok THEN Drain(q, Tail(rest), Append(lines, r.row))
  ELSE Aborted(lines, q.rownumber, r, Head(rest))

\* the loop of write over the rows the source still holds
Drain(p, rest, lines) ==
  IF rest = <<>> THEN Drained(lines, p.rownumber)
  ELSE Written(Transform([p EXCEPT !.rownumber = @ + 1], Head(rest)),
               [p EXCEPT !.rownumber = @ + 1], rest, lines)

\* write, given what its loop did
Wrote(d, rest) ==
  /\ d.rownumber - rownumber = Len(rest)   \* rest: the rows write gets to read
  /\ sink' = [header |-> heap[names], rows |-> d.lines, read |-> rest,
              written |-> TRUE]
  /\ rownumber' = d.rownumber
  /\ pos' = pos + Len(rest)
  /\ trace' = d.trace
  /\ eof' = (eof \/ d.ok)
  /\ ret' = IF d.ok THEN Ret("write", "ok")
            ELSE [Ret("write", "TransformError") EXCEPT !.exc = d.exc, !.raw = d.raw]
  /\ failed' = (failed \/ (~d.ok /\ d.exc.err.type = "ConstraintError"))
  /\ UNCHANGED <<heap, names, idx, mutation_fns, constraint_fns, select_fn,
                 skiprows, nops>>

write ==
  \E rest \in BoundedSeqs(SourceRows, IF eof THEN 0 ELSE MaxRows - Consumed) :
    Wrote(Drain(Self, rest, <<>>), rest)

Next ==
  \/ rename
  \/ add
  \/ add_column
  \/ mutate
  \/ constraint
  \/ select
  \/ __next__
  \/ write

Spec == Init /\ [][Next]_vars

\* ================================================================ claims
PulledARow   == ret.op = "__next__" /\ ret.kind = "row"
PullFailed   == ret.op = "__next__" /\ ret.kind = "TransformError"
PullGotARow  == PulledARow \/ PullFailed

\* C1: every row a pull returns has exactly as many fields as the schema's
\* name sequence has names at that moment.
C1_RowWidthIsSchemaWidth ==
  PulledARow => Len(ret.row) = Len(heap[names])

\* the mutated row the constraint chain and the projection are given
MutatedOf(tr, raw, M) == IF M = 0 THEN raw ELSE tr[M].out

\* C2: on every pull the transform entries are called in registration order,
\* each on the row the previous one produced (the first on the source row), all
\* of them before the first constraint entry; the constraint entries and then
\* the projection are given the mutated row, and the projection's result is
\* what the pull returns.
C2_StagesInOrder ==
  PullGotARow =>
    LET M  == Len(mutation_fns)
        C  == Len(constraint_fns)
        L  == Len(trace)
        mu == MutatedOf(trace, ret.raw, M)
    IN
    /\ L <= M + C + 1
    /\ \A j \in 1..L :
         /\ (j < L => trace[j].ok)
         /\ IF j <= M
            THEN /\ trace[j].stage = "mutation"
                 /\ trace[j].n = j
                 /\ trace[j].arg = (IF j = 1 THEN ret.raw ELSE trace[j - 1].out)
            ELSE IF j <= M + C
            THEN /\ trace[j].stage = "constraint"
                 /\ trace[j].n = j - M
                 /\ trace[j].arg = mu
            ELSE /\ trace[j].stage = "select"
                 /\ trace[j].arg = mu
    /\ (ret.kind = "row" => L = M + C + 1 /\ trace[L].ok /\ ret.row = trace[L].out)
    /\ (ret.kind = "TransformError" => L >= 1 /\ ~trace[L].ok)

C2_Witness ==
  /\ PulledARow
  /\ Len(mutation_fns) >= 2
  /\ Len(constraint_fns) >= 1
  /\ trace[2].arg # ret.raw

\* the pipeline in which every mutate entry iterates the names its `columns`
\* held when it was registered
Snapshot(fns) ==
  [i \in DOMAIN fns |-> IF fns[i].kind = "mutate" THEN [fns[i] EXCEPT !.ref = 0]
                        ELSE fns[i]]
Twin == [Self EXCEPT !.mutation_fns = Snapshot(mutation_fns)]

MutateNoneThenAdd ==
  \E i, j \in DOMAIN mutation_fns :
    /\ i < j
    /\ mutation_fns[i].kind = "mutate"
    /\ mutation_fns[i].ref # 0
    /\ mutation_fns[j].kind \in {"add", "add_column"}

\* C3: a pipeline that registered mutate(fn, None) and later added a column
\* gives, on every pull, the result of the pipeline that registered
\* mutate(fn, <the names at that moment>) instead.
C3_MutateNoneIsSnapshot ==
  (PullGotARow /\ MutateNoneThenAdd) =>
    LET t == Transform(Twin, ret.raw) IN
    /\ (ret.kind = "row") = t.ok
    /\ ret.row = t.row
    /\ ret.exc.err = t.err

\* C4 as stated: once a pull has failed on a constraint, no later pull returns
\* a row.
C4_NoRowAfterConstraintFailure ==
  failed => ~PulledARow

WriteFailedOnConstraint ==
  ret.op = "write" /\ ret.kind = "TransformError" /\ ret.exc.err.type = "ConstraintError"

\* C4 (amended): a write() that meets a row failing a constraint stops there:
\* the reader is left right after the failing row and the sink has been handed
\* exactly the rows before it.
C4_WriteStopsAtFailure ==
  [][WriteFailedOnConstraint' =>
       /\ pos' = ret'.exc.err.rown
       /\ Len(sink'.rows) = pos' - pos - 1]_vars

C4_Witness ==
  /\ WriteFailedOnConstraint
  /\ Len(sink.rows) >= 1
  /\ ~eof

FailedOnConstraint ==
  ret.kind = "TransformError" /\ ret.exc.err.type = "ConstraintError"

\* C5: the ConstraintError of a failure on the k-th data row carries
\* skiprows + 1 + k, the row's 1-based line in the source.
C5_ConstraintRowNumber ==
  FailedOnConstraint => ret.exc.err.rown = skiprows + 1 + Consumed

C5_Witness ==
  /\ FailedOnConstraint
  /\ ret.op = "__next__"
  /\ skiprows = 1
  /\ Consumed = 2

\* C6: a failure inside the transform chain, the constraint chain or the
\* projection reaches the caller as a TransformError carrying the current row
\* counter and the failure itself; StopIteration is passed on as it is.
C6_FailuresAreWrapped ==
  /\ PullFailed =>
       /\ trace # <<>>
       /\ ~trace[Len(trace)].ok
       /\ ret.exc.err = trace[Len(trace)].err
       /\ ret.exc.err.type # "none"
       /\ ret.exc.row = rownumber
  /\ (ret.op = "__next__" /\ \E j \in 1..Len(trace) : ~trace[j].ok) => PullFailed
  /\ (ret.op = "__next__" /\ ret.kind = "StopIteration") =>
       ret.exc = NoTransformError /\ trace = <<>>

C6_Witness ==
  /\ PullFailed
  /\ ret.exc.err.type = "UserError"
  /\ ret.exc.row = 3

ColumnOps == {"add_column", "mutate", "constraint", "select"}

\* the columns the entry registered by the step just taken iterates
Registered(op, m, c, s) ==
  IF op = "select" THEN s.cols
  ELSE IF op = "constraint" THEN c[Len(c)].cols
  ELSE m[Len(m)].cols

\* C7: mutate, add_column, constraint and select given a name that is not in
\* the schema fail with KeyError, and a call that fails leaves both chains, the
\* name sequence, the mapping and the projection as they were.
C7_UnknownColumnRejected ==
  [][(ret'.op \in ColumnOps /\ nops' = nops + 1) =>
       /\ ret'.kind = "ok" =>
            Range(Registered(ret'.op, mutation_fns', constraint_fns', select_fn'))
              \subseteq Range(heap[names])
       /\ ret'.kind # "ok" =>
            UNCHANGED <<heap, names, idx, mutation_fns, constraint_fns, select_fn>>]_vars

\* C8: once the source is exhausted every further pull raises StopIteration
\* again and changes nothing, whatever is registered.
C8_ExhaustionIsIdempotent ==
  [][(eof /\ ret'.op = "__next__") =>
       /\ ret'.kind = "StopIteration"
       /\ ret'.exc = NoTransformError
       /\ eof'
       /\ UNCHANGED <<rownumber, pos, heap, names, idx, mutation_fns,
                      constraint_fns, select_fn>>]_vars

C8_Witness ==
  /\ ret.op = "__next__"
  /\ ret.kind = "StopIteration"
  /\ ret.exhausted
  /\ mutation_fns # <<>>
  /\ constraint_fns # <<>>
  /\ select_fn.on

\* C9: after select(columns) every row a pull returns is the list of the
\* mutated row's values of the selected columns, in the order given, and
\* select leaves the schema's name sequence equal to columns.
C9_SelectProjects ==
  /\ (PulledARow /\ select_fn.on) =>
       LET mu == MutatedOf(trace, ret.raw, Len(mutation_fns)) IN
       ret.row = [i \in 1..Len(select_fn.cols) |->
                    mu[select_fn.res[select_fn.cols[i]] + 1]]
  /\ (ret.op = "select" /\ ret.kind = "ok") => heap[names] = select_fn.cols

Distinct(ns) == \A i, j \in 1..Len(ns) : ns[i] = ns[j] => i = j

\* C10: the name-to-index mapping is the one regenerated from the current
\* name sequence, with len(names) entries (one per name, the names being
\* distinct).
C10_MappingRegenerable ==
  /\ idx = ZipIdx(heap[names])
  /\ Distinct(heap[names]) => Cardinality(DOMAIN idx) = Len(heap[names])

RegisteredOk(op) == ret'.op = op /\ ret'.kind = "ok" /\ nops' = nops + 1

\* C11: after rename({a: b}) of a current column a to a name b the schema does
\* not hold yet, b resolves to the index a resolved to before and a no longer
\* resolves.
C11_RenameKeepsIndex ==
  [][RegisteredOk("rename") =>
       \A a \in Range(heap[names]), b \in ColumnNames :
         (/\ b \notin Range(heap[names])
          /\ b \notin DOMAIN idx
          /\ heap'[names'] = [i \in 1..Len(heap[names]) |->
                                IF heap[names][i] = a THEN b ELSE heap[names][i]])
         => /\ b \in DOMAIN idx'
            /\ idx'[b] = idx[a]
            /\ a \notin DOMAIN idx']_vars

\* C12: add grows the name sequence by exactly one name, and a pull made when
\* add was the last operation registered returns a row whose last field is the
\* value that add was given.
C12_AddedValueIsLast ==
  [][/\ RegisteredOk("add") => Len(heap'[names']) = Len(heap[names]) + 1
     /\ (ret.op = "add" /\ ret.kind = "ok" /\ ret'.op = "__next__" /\ ret'.kind = "row")
        => /\ ret'.row # <<>>
           /\ ret'.row[Len(ret'.row)] = mutation_fns[Len(mutation_fns)].val]_vars

\* C13: the row counter starts at 1 and advances once per skipped row and once
\* per pull that obtains a source row, failed pulls included, and not for the
\* header: after skiprows = s and k such pulls it is 1 + s + k.
C13_CounterIsLinesRead ==
  rownumber = 1 + skiprows + Consumed

\* C13 as stated: the header counted too, 1 + s + 1 + k.
C13_CounterCountsHeader ==
  rownumber = 1 + skiprows + 1 + Consumed

C13_Witness ==
  /\ PullFailed
  /\ skiprows = 1
  /\ Consumed = 2
  /\ rownumber = 4

WriteReturned == ret'.op = "write" /\ ret'.kind = "ok"

\* C14: a write in which no row fails gives the sink the current name sequence
\* as header, then one line per source row it read, the i-th line being the
\* pipeline's output for the i-th row read, and leaves the source exhausted.
C14_WriteDrainsInOrder ==
  [][WriteReturned =>
       /\ sink'.written
       /\ sink'.header = heap[names]
       /\ Len(sink'.read) = pos' - pos
       /\ Len(sink'.rows) = Len(sink'.read)
       /\ \A i \in 1..Len(sink'.read) :
            sink'.rows[i] =
              Transform([Self EXCEPT !.rownumber = rownumber + i], sink'.read[i]).row
       /\ eof']_vars

C14_Witness ==
  /\ ret.op = "write"
  /\ ret.kind = "ok"
  /\ Len(sink.rows) = 2
  /\ sink.rows[1] # sink.rows[2]
  /\ sink.header # heap[1]
  /\ mutation_fns # <<>>
  /\ eof

\* C15: a select that is accepted names only columns of the name sequence it
\* replaces; after select(S1) a select naming a column outside S1 is refused.
C15_SelectChecksCurrentNames ==
  [][RegisteredOk("select") => Range(select_fn'.cols) \subseteq Range(heap[names])]_vars

\* the names an entry was registered with keep resolving to the same positions
KeepsPositions(cols) ==
  \A c \in Range(cols) : c \in DOMAIN idx => (c \in DOMAIN idx' /\ idx'[c] = idx[c])

FailedInEntry ==
  /\ ret'.op = "__next__"
  /\ ret'.kind = "TransformError"
  /\ trace' # <<>>
  /\ trace'[Len(trace')].stage \in {"mutation", "constraint"}

\* C16: a rename, add or select registered after a mutate, add_column or
\* constraint entry leaves the positions the entry's column names resolve to
\* as they were, and no pull fails inside an entry on a name that no longer
\* resolves or on a position the row does not have.
C16_EntriesKeepPositions ==
  [][/\ (RegisteredOk("rename") \/ RegisteredOk("add") \/ RegisteredOk("select"))
        => /\ \A i \in DOMAIN mutation_fns : KeepsPositions(mutation_fns[i].cols)
           /\ \A i \in DOMAIN constraint_fns : KeepsPositions(constraint_fns[i].cols)
     /\ FailedInEntry => ret'.exc.err.type \notin {"KeyError", "IndexError"}]_vars

\* the predicate fn holds of column c of the row
Passes(fn, c, row) ==
  /\ Item(Self, c, row).ok
  /\ CallPred(fn, Item(Self, c, row).val)

\* C17: a constraint failure is the first failing check in the order of entry
\* registration and, within the entry, of its columns: every check before the
\* reported one passed, and the reported one is the last closure call made for
\* the row.
C17_FirstFailureReported ==
  FailedOnConstraint =>
    LET ev == trace[Len(trace)]
        e  == ret.exc.err
        cl == constraint_fns[ev.n]
        cs == Columns(Self, cl)
    IN /\ ev.stage = "constraint"
       /\ Len(trace) = Len(mutation_fns) + ev.n
       /\ e.fn_name = cl.fn
       /\ \E j \in 1..Len(cs) :
            /\ cs[j] = e.column
            /\ Item(Self, cs[j], ev.arg).ok
            /\ e.value = Item(Self, cs[j], ev.arg).val
            /\ ~CallPred(cl.fn, e.value)
            /\ \A i \in 1..(j - 1) : Passes(cl.fn, cs[i], ev.arg)
       /\ \A m \in 1..(ev.n - 1) :
            \A c \in Range(Columns(Self, constraint_fns[m])) :
              Passes(constraint_fns[m].fn, c, ev.arg)

C17_Witness ==
  /\ FailedOnConstraint
  /\ ret.op = "__next__"
  /\ Len(constraint_fns) = 2
  /\ trace[Len(trace)].n = 1
  /\ Len(constraint_fns[1].cols) = 2
  /\ ret.exc.err.column = constraint_fns[1].cols[1]
  /\ \A m \in 1..2 :
       \A c \in Range(Columns(Self, constraint_fns[m])) :
         /\ Item(Self, c, trace[Len(trace)].arg).ok
         /\ ~CallPred(constraint_fns[m].fn, Item(Self, c, trace[Len(trace)].arg).val)

\* C18: a pull that fails with a TransformError leaves the name sequence, the
\* mapping, both chains and the projection as they were, advances the row
\* counter by exactly one and moves the reader past the failed row, so that the
\* next pull processes the row after it.
C18_FailedPullOnlyAdvances ==
  [][(ret'.op = "__next__" /\ ret'.kind = "TransformError") =>
       /\ UNCHANGED <<heap, names, idx, mutation_fns, constraint_fns, select_fn>>
       /\ rownumber' = rownumber + 1
       /\ pos' = pos + 1
       /\ ret'.exc.row = rownumber'
       /\ eof' = eof]_vars

C18_Witness ==
  /\ PullFailed
  /\ Consumed = 2
  /\ mutation_fns # <<>>
  /\ constraint_fns # <<>>
  /\ select_fn.on

AllMutationsRan ==
  /\ ret'.op = "__next__"
  /\ ret'.kind \in {"row", "TransformError"}
  /\ Len(trace') >= Len(mutation_fns)
  /\ \A i \in 1..Len(mutation_fns) : trace'[i].ok

\* C19: the index recorded for a column that add or add_column introduced is
\* the position at which the entry puts its value in the mutated row: on the
\* pull that follows the registration, the entry's result has the value at that
\* index, as its last field.
C19_AddedIndexIsPosition ==
  [][((ret.op = "add" \/ ret.op = "add_column") /\ ret.kind = "ok" /\ AllMutationsRan) =>
       LET name == heap[names][Len(heap[names])]
           out  == trace'[Len(mutation_fns)].out
       IN /\ name \in DOMAIN idx
          /\ idx[name] + 1 = Len(out)]_vars

====
